---- MODULE Spec2Model ----
(***************************************************************************)
(* Model of src/main.py: run_kappa_simulation (the KaSim subprocess with   *)
(* fallback) and run_with_kappybara (the in-process library backend).      *)
(*                                                                         *)
(* A call is a sequence of steps, one per statement that touches state     *)
(* other calls or the caller can see (the file system, sys.stdout and      *)
(* sys.stderr, the process-wide RNG) or that can raise.  Exceptions are    *)
(* routed through the try/except/finally/with structure of the source.     *)
(* KaSim and the kappybara library are outside the repository: KaSim's     *)
(* outcome is chosen nondeterministically per call, the library is a       *)
(* deterministic function of the model source and of the process-wide RNG. *)
(***************************************************************************)
EXTENDS Integers, Sequences, FiniteSets, TLC

\* ------------------------------------------------------------------ bounds
NumCalls == 2
MaxTimeLimit == 2
MaxPoints == 1
MaxSeed == 1
RngMod == 4

Calls == 1..NumCalls

\* ------------------------------------------------------------- request data
\* Classes of model source text, by what the library does with them.
KappaCodes == {"valid", "chatty", "invalid", "stepfail", "noobs", "frozen"}
WellFormed == {"valid", "chatty"}
\* time_limit and points as passed by the caller: 0 stands for any
\* non-positive value.
TimeLimits == 0..MaxTimeLimit
PointsValues == 0..MaxPoints
None == -1
Seeds == {None} \cup (0..MaxSeed)

Requests == [kappa_code : KappaCodes, time_limit : TimeLimits,
             points : PointsValues, seed : Seeds]
NoRequest == [kappa_code |-> "", time_limit |-> 0, points |-> 0, seed |-> None]

\* --------------------------------------------------------------- exceptions
NoExc == [type |-> "None", msg |-> ""]
Exc(t, m) == [type |-> t, msg |-> m]

\* The part of Python's class hierarchy the handlers distinguish.
Parent(t) ==
    CASE t = "FileNotFoundError" -> "OSError"
      [] t = "PermissionError" -> "OSError"
      [] t = "OSError" -> "Exception"
      [] t = "TimeoutExpired" -> "Exception"
      [] t = "ModuleNotFoundError" -> "ImportError"
      [] t = "ImportError" -> "Exception"
      [] t = "UnicodeDecodeError" -> "ValueError"
      [] t = "ValueError" -> "Exception"
      [] t = "AttributeError" -> "Exception"
      [] t = "RuntimeError" -> "Exception"
      [] t = "Exception" -> "BaseException"
      [] OTHER -> "object"

RECURSIVE IsSubclass(_, _)
IsSubclass(t, cls) ==
    IF t = cls THEN TRUE
    ELSE IF t \in {"object", "None"} THEN FALSE
    ELSE IsSubclass(Parent(t), cls)

IsInstance(e, cls) == IsSubclass(e.type, cls)

\* ------------------------------------------------------------------ strings
Contains(s, sub) ==
    \E i \in 1..(Len(s) - Len(sub) + 1) : SubSeq(s, i, i + Len(sub) - 1) = sub

\* ------------------------------------------------------------------ streams
\* Stream objects by identity.  "default" is sys.__stdout__ / sys.__stderr__,
\* "host" a stream the embedding process installed before the call,
\* "capture" the io.StringIO a call created.
Stream(k, fd, c) == [kind |-> k, fd |-> fd, owner |-> c]
DefaultStdout == Stream("default", "out", 0)
DefaultStderr == Stream("default", "err", 0)
HostStdout == Stream("host", "out", 0)
HostStderr == Stream("host", "err", 0)
StdoutCapture(c) == Stream("capture", "out", c)
StderrCapture(c) == Stream("capture", "err", c)
NoStream == Stream("none", "", 0)

\* -------------------------------------------------------------- file system
TmpDir(c) == "/tmp/tmp" \o ToString(c)
InputFile(c) == TmpDir(c) \o "/input.ka"
OutputFile(c) == TmpDir(c) \o "/output.csv"
Dir == "<dir>"
Undecodable == "<bytes that are not UTF-8>"
File(p, d) == [path |-> p, data |-> d]
Exists(files, p) == \E f \in files : f.path = p
ReadText(files, p) == (CHOOSE f \in files : f.path = p).data

\* ---------------------------------------------------- process-wide RNG
\* random.seed(seed) puts the generator in a state fixed by the seed; every
\* draw advances it.
RngStates == 0..(RngMod - 1)
Seeded(seed) == seed % RngMod
Advance(r) == (r + 1) % RngMod

\* The seed is never applied.
SeedRngSkipped(r, seed) == r

\* The generator seeded with a constant, whatever seed was given.
SeedRngConstant(r, seed) == IF seed # None THEN 0 ELSE r

\* The generator seeded whether or not a seed was given.
SeedRngUnconditional(r, seed) == Seeded(seed)

\* rand.seed(seed) under "if seed is not None".
SeedRng(r, seed) == IF seed # None THEN Seeded(seed) ELSE r

\* ------------------------------------------------- the kappybara library
\* What the calls of run_with_kappybara into the library do.  A system is
\* its simulated time and the rows its monitor has recorded.
NoSystem == [time |-> -1, rows |-> <<>>]
FromKaRaises(code) == code = "invalid"
FromKaError == Exc("ValueError", "cannot parse model")
FromKaStdout(code) == IF code \in {"chatty", "stepfail"} THEN "parsed\n" ELSE ""
FromKaStderr(code) == IF code = "chatty" THEN "warning: unused agent\n" ELSE ""
FromKa(code) == [time |-> 0, rows |-> <<>>]

UpdateRaises(code) == code = "stepfail"
UpdateError == Exc("RuntimeError", "no applicable rule")
\* One stochastic step: the waiting time and the observable are drawn from
\* the process-wide generator.
Update(sys, r) ==
    LET t == sys.time + 1 + (r % 2)
    IN  [time |-> t, rows |-> Append(sys.rows, <<t, r>>)]

\* No update ever advances the simulated time.
UpdateForNoProgress(code, sys, r) == sys

\* A model none of whose rules can fire: its update returns without an
\* event, so the simulated time stands still and the monitor records nothing.
UpdateFor(code, sys, r) == IF code = "frozen" THEN sys ELSE Update(sys, r)

\* The loop also stops after points rows.
LoopConditionWithPoints(sys, r) == sys.time < r.time_limit /\ Len(sys.rows) < r.points
\* The loop runs once more when the time equals the limit.
LoopConditionInclusive(sys, r) == sys.time <= r.time_limit
\* Line 159: "while system.time < time_limit", r the call's arguments.
LoopCondition(sys, r) == sys.time < r.time_limit

DataframeRaises(code) == code = "noobs"
DataframeError == Exc("AttributeError", "'NoneType' object has no attribute 'dataframe'")

RECURSIVE CsvRows(_)
CsvRows(rows) ==
    IF rows = <<>> THEN ""
    ELSE ToString(Head(rows)[1]) \o "," \o ToString(Head(rows)[2]) \o "\n"
         \o CsvRows(Tail(rows))
\* df.to_csv(csv_buffer, index=False): a header row, then one line per row.
ToCsv(rows) == "time,A\n" \o CsvRows(rows)

\* ------------------------------------------------------------ KaSim
\* What a completed KaSim process can leave behind: its exit status, its
\* captured streams, and the output file it wrote, if any.
NoFile == "<no file>"
KaSimCsv == "time,A\n0,10\n"
KaSimRuns ==
    { [returncode |-> 0, stdout |-> "", stderr |-> "", file |-> KaSimCsv],
      [returncode |-> 0, stdout |-> "KaSim log\n", stderr |-> "KaSim warning\n", file |-> KaSimCsv],
      [returncode |-> 0, stdout |-> "", stderr |-> "", file |-> ""],
      [returncode |-> 0, stdout |-> "KaSim log\n", stderr |-> "", file |-> Undecodable],
      [returncode |-> 0, stdout |-> "KaSim log\n", stderr |-> "KaSim error\n", file |-> NoFile],
      [returncode |-> 1, stdout |-> "KaSim log\n", stderr |-> "KaSim error\n", file |-> NoFile],
      [returncode |-> 1, stdout |-> "", stderr |-> "KaSim error\n", file |-> KaSimCsv] }
NoProc == [returncode |-> -1, stdout |-> "", stderr |-> "", file |-> NoFile]

\* The command line of lines 67-76.
KasimCmd(c, req) ==
    <<"KaSim", "-i", InputFile(c), "-o", OutputFile(c),
      "-t", ToString(req.time_limit), "-p", ToString(req.points)>>
    \o (IF req.seed # None THEN <<"-seed", ToString(req.seed)>> ELSE <<>>)

\* --------------------------------------------------------------- responses
Response(out, err, csv) == [stdout |-> out, stderr |-> err, output |-> csv]
NoResult == [none |-> ""]

\* The timeout reported with no message.
TimeoutResponseSilent == Response("", "", "")
\* Lines 104-108.
TimeoutResponse == Response("", "Simulation timed out after 5 minutes", "")
\* Lines 112-116.
FailedResponse(e) == Response("", "Simulation failed: " \o e.msg, "")
\* KaSim's captured stderr dropped from the response.
KaSimResponseNoStderr(proc, csv_content) == Response(proc.stdout, "", csv_content)
\* Lines 90-94.
KaSimResponse(proc, csv_content) == Response(proc.stdout, proc.stderr, csv_content)
\* Lines 175-179.
KappybaraResponse(out, err, csv_content) == Response(out, err, csv_content)
\* Lines 185-189.
ImportErrorResponse(out, e) ==
    Response(out,
             "Failed to import kappybara: " \o e.msg
                 \o ". Please install kappybara: pip install kappybara",
             "")
\* traceback.format_exc(): the exception being handled, preceded by the
\* exception that was being handled when it was raised (its __context__).
TracebackOf(e) == "Traceback (most recent call last):\n" \o e.type \o ": " \o e.msg \o "\n"
FormatExc(e, context) ==
    IF context = NoExc THEN TracebackOf(e)
    ELSE TracebackOf(context)
         \o "\nDuring handling of the above exception, another exception occurred:\n\n"
         \o TracebackOf(e)
\* The captured stdout dropped from the error response.
ExceptionResponseNoStdout(out, e, context) ==
    Response("", "Kappybara simulation failed: " \o e.msg \o "\n" \o FormatExc(e, context), "")
\* Only the captured stream returned, without the exception's message.
ExceptionResponseCaptured(out, e, context) == Response(out, "", "")
\* Lines 195-199.
ExceptionResponse(out, e, context) ==
    Response(out,
             "Kappybara simulation failed: " \o e.msg \o "\n" \o FormatExc(e, context),
             "")

\* --------------------------------------------------- exception handlers
\* The exit status left out of the test.
KaSimSucceededFileOnly(proc, files, c) == Exists(files, OutputFile(c))
\* Line 88: "if result.returncode == 0 and output_file.exists()".
KaSimSucceeded(proc, files, c) == proc.returncode = 0 /\ Exists(files, OutputFile(c))

\* A timeout treated like a missing binary.
InnerHandlerFallsBack(e) ==
    IF IsInstance(e, "FileNotFoundError") \/ IsInstance(e, "TimeoutExpired") THEN "except_fnf"
    ELSE "with_exit"

\* Any OSError treated like a missing binary.
InnerHandlerAnyOSError(e) ==
    IF IsInstance(e, "OSError") THEN "except_fnf"
    ELSE IF IsInstance(e, "TimeoutExpired") THEN "except_timeout"
    ELSE "with_exit"

\* Where an exception raised inside the try of line 79 goes: lines 100, 103,
\* or out of the with block to the handler of line 111.
InnerHandler(e) ==
    IF IsInstance(e, "FileNotFoundError") THEN "except_fnf"
    ELSE IF IsInstance(e, "TimeoutExpired") THEN "except_timeout"
    ELSE "with_exit"

\* A handler for OSError only.
OuterHandlerOSError(e) == IF IsInstance(e, "OSError") THEN "except_outer" ELSE "raised"
\* Line 111: "except Exception as e".
OuterHandler(e) == IF IsInstance(e, "Exception") THEN "except_outer" ELSE "raised"

\* Only the ImportError handler; any other exception leaves the function.
KappybaraHandlerImportOnly(e) ==
    IF IsInstance(e, "ImportError") THEN "import_error_stdout" ELSE "with_exit"

\* Lines 182 and 191: the handlers of run_with_kappybara's try.
KappybaraHandler(e) ==
    IF IsInstance(e, "ImportError") THEN "import_error_stdout"
    ELSE IF IsInstance(e, "Exception") THEN "exception_stdout"
    ELSE "with_exit"

\* Only the input file and the directory removed.
CleanupInputOnly(files, c) == {f \in files : f.path \notin {TmpDir(c), InputFile(c)}}
\* tempfile.TemporaryDirectory.__exit__: the directory and all in it go.
Cleanup(files, c) ==
    {f \in files : ~(f.path = TmpDir(c) \/ (Len(f.path) > Len(TmpDir(c))
                     /\ SubSeq(f.path, 1, Len(TmpDir(c)) + 1) = TmpDir(c) \o "/"))}

\* ------------------------------------------------------------ state
VARIABLES
    sys_stdout,      \* sys.stdout: the stream object installed process-wide
    sys_stderr,      \* sys.stderr
    rng,             \* state of the random module's process-wide generator
    fs,              \* the files and directories that exist
    kasim,           \* whether a KaSim executable is on the PATH
    kappybara,       \* whether the kappybara package can be imported
    pc,              \* each call's position
    req,             \* each call's arguments
    pre,             \* the process-wide state each call started from
    kasim_cmd,       \* the command line built for KaSim
    proc,            \* the CompletedProcess of subprocess.run
    exc,             \* the exception propagating in the call, if any
    context,         \* the exception being handled around run_with_kappybara
    old_stdout,      \* run_with_kappybara's local old_stdout
    old_stderr,      \* run_with_kappybara's local old_stderr
    stdout_capture,  \* contents of the call's stdout_capture buffer
    stderr_capture,  \* contents of the call's stderr_capture buffer
    system,          \* run_with_kappybara's local system
    result,          \* the object whose JSON encoding the call returns
    path             \* the steps the call has taken

globals == <<sys_stdout, sys_stderr, rng, fs, kasim, kappybara>>
streams == <<sys_stdout, sys_stderr>>
env == <<kasim, kappybara>>
locals == <<req, pre, kasim_cmd, proc, exc, context, old_stdout, old_stderr,
            stdout_capture, stderr_capture, system, result>>
vars == <<globals, pc, path, locals>>

Init ==
    /\ \E host \in BOOLEAN :
          /\ sys_stdout = IF host THEN HostStdout ELSE DefaultStdout
          /\ sys_stderr = IF host THEN HostStderr ELSE DefaultStderr
    /\ rng = 0
    /\ fs = {}
    /\ kasim \in {"absent", "present"}
    /\ kappybara \in {"absent", "present"}
    /\ pc = [c \in Calls |-> "idle"]
    /\ req = [c \in Calls |-> NoRequest]
    /\ pre = [c \in Calls |-> [stdout |-> NoStream, stderr |-> NoStream, rng |-> 0]]
    /\ kasim_cmd = [c \in Calls |-> <<>>]
    /\ proc = [c \in Calls |-> NoProc]
    /\ exc = [c \in Calls |-> NoExc]
    /\ context = [c \in Calls |-> NoExc]
    /\ old_stdout = [c \in Calls |-> NoStream]
    /\ old_stderr = [c \in Calls |-> NoStream]
    /\ stdout_capture = [c \in Calls |-> ""]
    /\ stderr_capture = [c \in Calls |-> ""]
    /\ system = [c \in Calls |-> NoSystem]
    /\ result = [c \in Calls |-> NoResult]
    /\ path = [c \in Calls |-> {}]

\* The call moves to position p; the step it took is logged under name.
Goto(c, name, p) ==
    /\ pc' = [pc EXCEPT ![c] = p]
    /\ path' = [path EXCEPT ![c] = @ \cup {name}]

\* The calls that have seeded or may seed no more, and have not left the loop.
InRngWindow(d) ==
    pc[d] \in {"save_stdout", "save_stderr", "set_stdout", "set_stderr", "from_ka", "loop"}

\* As Goto, for a step that changes the process-wide generator: the other
\* calls that are between their seeding and the end of their loop have it
\* logged that the generator changed under them.
GotoRng(c, name, p) ==
    /\ pc' = [pc EXCEPT ![c] = p]
    /\ path' = [d \in Calls |->
                   IF d = c THEN path[c] \cup {name}
                   ELSE IF InRngWindow(d) /\ rng' # rng THEN path[d] \cup {"rng_disturbed"}
                   ELSE path[d]]

\* Text written through a process-wide stream lands in the capture buffer
\* that stream is, if it is one.
WriteTo(caps, stream, text) ==
    IF stream.kind = "capture" THEN [caps EXCEPT ![stream.owner] = @ \o text] ELSE caps

\* ------------------------------------------- run_kappa_simulation, 53-117
\* The caller calls run_kappa_simulation; calls do not overlap.
Begin(c) ==
    /\ \A d \in Calls : pc[d] = "idle"
    /\ \E r \in Requests : req' = [req EXCEPT ![c] = r]
    /\ pre' = [pre EXCEPT ![c] = [stdout |-> sys_stdout, stderr |-> sys_stderr, rng |-> rng]]
    /\ pc' = [pc EXCEPT ![c] = "mkdtemp"]
    /\ UNCHANGED <<globals, path, kasim_cmd, proc, exc, context, old_stdout,
                   old_stderr, stdout_capture, stderr_capture, system, result>>

\* Line 55: tempfile.TemporaryDirectory().
Mkdtemp(c) ==
    /\ pc[c] = "mkdtemp"
    /\ \/ /\ fs' = fs \cup {File(TmpDir(c), Dir)}
          /\ Goto(c, "mkdtemp", "write_input")
          /\ UNCHANGED exc
       \/ /\ exc' = [exc EXCEPT ![c] = Exc("OSError", "No usable temporary directory found")]
          /\ Goto(c, "mkdtemp_raised", OuterHandler(exc'[c]))
          /\ UNCHANGED fs
    /\ UNCHANGED <<streams, rng, env, req, pre, kasim_cmd, proc, context, old_stdout,
                   old_stderr, stdout_capture, stderr_capture, system, result>>

\* Lines 59-60: input_file.write_text(kappa_code).
WriteInput(c) ==
    /\ pc[c] = "write_input"
    /\ \/ /\ fs' = fs \cup {File(InputFile(c), req[c].kappa_code)}
          /\ Goto(c, "write_input", "build_cmd")
          /\ UNCHANGED exc
       \/ /\ exc' = [exc EXCEPT ![c] = Exc("OSError", "No space left on device")]
          /\ Goto(c, "write_input_raised", "with_exit")
          /\ UNCHANGED fs
    /\ UNCHANGED <<streams, rng, env, req, pre, kasim_cmd, proc, context, old_stdout,
                   old_stderr, stdout_capture, stderr_capture, system, result>>

\* Lines 63-76.
BuildCmd(c) ==
    /\ pc[c] = "build_cmd"
    /\ kasim_cmd' = [kasim_cmd EXCEPT ![c] = KasimCmd(c, req[c])]
    /\ Goto(c, "build_cmd", "run_kasim")
    /\ UNCHANGED <<globals, req, pre, proc, exc, context, old_stdout,
                   old_stderr, stdout_capture, stderr_capture, system, result>>

\* Lines 80-85: subprocess.run(kasim_cmd, ..., timeout=300).
RunKaSim(c) ==
    /\ pc[c] = "run_kasim"
    /\ \/ /\ kasim = "absent"
          /\ exc' = [exc EXCEPT ![c] =
                Exc("FileNotFoundError", "[Errno 2] No such file or directory: 'KaSim'")]
          /\ Goto(c, "kasim_not_found", InnerHandler(exc'[c]))
          /\ UNCHANGED <<fs, proc>>
       \/ /\ kasim = "present"
          /\ exc' = [exc EXCEPT ![c] = Exc("PermissionError", "[Errno 13] Permission denied: 'KaSim'")]
          /\ Goto(c, "kasim_not_launched", InnerHandler(exc'[c]))
          /\ UNCHANGED <<fs, proc>>
       \/ /\ kasim = "present"
          /\ exc' = [exc EXCEPT ![c] = Exc("TimeoutExpired", "Command timed out after 300 seconds")]
          /\ Goto(c, "kasim_timed_out", InnerHandler(exc'[c]))
          /\ UNCHANGED <<fs, proc>>
       \/ /\ kasim = "present"
          /\ \E run \in KaSimRuns :
                /\ proc' = [proc EXCEPT ![c] = run]
                /\ fs' = IF run.file = NoFile THEN fs
                         ELSE fs \cup {File(OutputFile(c), run.file)}
          /\ Goto(c, "kasim_completed", "check_result")
          /\ UNCHANGED exc
    /\ UNCHANGED <<streams, rng, env, req, pre, kasim_cmd, context, old_stdout,
                   old_stderr, stdout_capture, stderr_capture, system, result>>

\* Lines 88 and 96-98: the test of KaSim's result, and the call of
\* run_with_kappybara when it fails.
CheckResult(c) ==
    /\ pc[c] = "check_result"
    /\ IF KaSimSucceeded(proc[c], fs, c)
          THEN Goto(c, "kasim_succeeded", "read_output")
          ELSE Goto(c, "kasim_failed", "kb_enter")
    /\ UNCHANGED <<globals, locals>>

\* Lines 89-95.
ReadOutput(c) ==
    /\ pc[c] = "read_output"
    /\ IF ~Exists(fs, OutputFile(c))
       THEN /\ exc' = [exc EXCEPT ![c] =
                  Exc("FileNotFoundError", "[Errno 2] No such file or directory: 'output.csv'")]
            /\ Goto(c, "read_output_raised", InnerHandler(exc'[c]))
            /\ UNCHANGED result
       ELSE LET csv_content == ReadText(fs, OutputFile(c))
            IN  IF csv_content = Undecodable
                THEN /\ exc' = [exc EXCEPT ![c] =
                           Exc("UnicodeDecodeError", "'utf-8' codec can't decode byte 0xff")]
                     /\ Goto(c, "read_output_raised", InnerHandler(exc'[c]))
                     /\ UNCHANGED result
                ELSE /\ result' = [result EXCEPT ![c] = KaSimResponse(proc[c], csv_content)]
                     /\ Goto(c, "return_kasim", "with_exit")
                     /\ UNCHANGED exc
    /\ UNCHANGED <<globals, req, pre, kasim_cmd, proc, context, old_stdout,
                   old_stderr, stdout_capture, stderr_capture, system>>

\* Lines 100-102: KaSim is not installed; run_with_kappybara is called
\* while the FileNotFoundError is being handled.
ExceptFnf(c) ==
    /\ pc[c] = "except_fnf"
    /\ context' = [context EXCEPT ![c] = exc[c]]
    /\ exc' = [exc EXCEPT ![c] = NoExc]
    /\ Goto(c, "except_fnf", "kb_enter")
    /\ UNCHANGED <<globals, req, pre, kasim_cmd, proc, old_stdout,
                   old_stderr, stdout_capture, stderr_capture, system, result>>

\* Lines 103-109.
ExceptTimeout(c) ==
    /\ pc[c] = "except_timeout"
    /\ exc' = [exc EXCEPT ![c] = NoExc]
    /\ result' = [result EXCEPT ![c] = TimeoutResponse]
    /\ Goto(c, "except_timeout", "with_exit")
    /\ UNCHANGED <<globals, req, pre, kasim_cmd, proc, context, old_stdout,
                   old_stderr, stdout_capture, stderr_capture, system>>

\* Leaving the with block of line 55, by a return or by an exception: the
\* temporary directory is removed.
WithExit(c) ==
    /\ pc[c] = "with_exit"
    /\ fs' = Cleanup(fs, c)
    /\ IF exc[c] # NoExc
          THEN Goto(c, "with_exit", OuterHandler(exc[c]))
          ELSE Goto(c, "with_exit", "returned")
    /\ UNCHANGED <<streams, rng, env, locals>>

\* Lines 111-117.
ExceptOuter(c) ==
    /\ pc[c] = "except_outer"
    /\ result' = [result EXCEPT ![c] = FailedResponse(exc[c])]
    /\ exc' = [exc EXCEPT ![c] = NoExc]
    /\ Goto(c, "except_outer", "returned")
    /\ UNCHANGED <<globals, req, pre, kasim_cmd, proc, context, old_stdout,
                   old_stderr, stdout_capture, stderr_capture, system>>

\* --------------------------------------------- run_with_kappybara, 120-200
\* Lines 134-135: the two capture buffers.
KbEnter(c) ==
    /\ pc[c] = "kb_enter"
    /\ stdout_capture' = [stdout_capture EXCEPT ![c] = ""]
    /\ stderr_capture' = [stderr_capture EXCEPT ![c] = ""]
    /\ Goto(c, "run_with_kappybara", "import")
    /\ UNCHANGED <<globals, req, pre, kasim_cmd, proc, exc, context, old_stdout,
                   old_stderr, system, result>>

\* Lines 138-139: from kappybara.system import System.
Import(c) ==
    /\ pc[c] = "import"
    /\ IF kappybara = "absent"
          THEN /\ exc' = [exc EXCEPT ![c] =
                     Exc("ModuleNotFoundError", "No module named 'kappybara'")]
               /\ Goto(c, "import_raised", KappybaraHandler(exc'[c]))
          ELSE /\ Goto(c, "import", "seed")
               /\ UNCHANGED exc
    /\ UNCHANGED <<globals, req, pre, kasim_cmd, proc, context, old_stdout,
                   old_stderr, stdout_capture, stderr_capture, system, result>>

\* Lines 142-143.
Seed(c) ==
    /\ pc[c] = "seed"
    /\ rng' = SeedRng(rng, req[c].seed)
    /\ GotoRng(c, IF req[c].seed # None THEN "seed" ELSE "no_seed", "save_stdout")
    /\ UNCHANGED <<streams, fs, env, locals>>

\* Line 146.
SaveStdout(c) ==
    /\ pc[c] = "save_stdout"
    /\ old_stdout' = [old_stdout EXCEPT ![c] = sys_stdout]
    /\ Goto(c, "save_stdout", "save_stderr")
    /\ UNCHANGED <<globals, req, pre, kasim_cmd, proc, exc, context,
                   old_stderr, stdout_capture, stderr_capture, system, result>>

\* Line 147.
SaveStderr(c) ==
    /\ pc[c] = "save_stderr"
    /\ old_stderr' = [old_stderr EXCEPT ![c] = sys_stderr]
    /\ Goto(c, "save_stderr", "set_stdout")
    /\ UNCHANGED <<globals, req, pre, kasim_cmd, proc, exc, context,
                   old_stdout, stdout_capture, stderr_capture, system, result>>

\* Line 148.
SetStdout(c) ==
    /\ pc[c] = "set_stdout"
    /\ sys_stdout' = StdoutCapture(c)
    /\ Goto(c, "set_stdout", "set_stderr")
    /\ UNCHANGED <<sys_stderr, rng, fs, env, locals>>

\* Line 149.
SetStderr(c) ==
    /\ pc[c] = "set_stderr"
    /\ sys_stderr' = StderrCapture(c)
    /\ Goto(c, "set_stderr", "from_ka")
    /\ UNCHANGED <<sys_stdout, rng, fs, env, locals>>

\* Line 153: system = System.from_ka(kappa_code).
FromKaStep(c) ==
    /\ pc[c] = "from_ka"
    /\ IF FromKaRaises(req[c].kappa_code)
          THEN /\ exc' = [exc EXCEPT ![c] = FromKaError]
               /\ Goto(c, "from_ka_raised", "finally_stdout")
               /\ UNCHANGED <<system, stdout_capture, stderr_capture>>
          ELSE /\ system' = [system EXCEPT ![c] = FromKa(req[c].kappa_code)]
               /\ stdout_capture' =
                     WriteTo(stdout_capture, sys_stdout, FromKaStdout(req[c].kappa_code))
               /\ stderr_capture' =
                     WriteTo(stderr_capture, sys_stderr, FromKaStderr(req[c].kappa_code))
               /\ Goto(c, "from_ka", "loop")
               /\ UNCHANGED exc
    /\ UNCHANGED <<globals, req, pre, kasim_cmd, proc, context, old_stdout,
                   old_stderr, result>>

\* Lines 159-160: while system.time < time_limit: system.update().
Loop(c) ==
    /\ pc[c] = "loop"
    /\ IF LoopCondition(system[c], req[c])
          THEN IF UpdateRaises(req[c].kappa_code)
                  THEN /\ exc' = [exc EXCEPT ![c] = UpdateError]
                       /\ Goto(c, "update_raised", "finally_stdout")
                       /\ UNCHANGED <<system, rng>>
                  ELSE /\ system' = [system EXCEPT ![c] =
                             UpdateFor(req[c].kappa_code, @, rng)]
                       /\ rng' = Advance(rng)
                       /\ GotoRng(c, "update", "loop")
                       /\ UNCHANGED exc
          ELSE /\ Goto(c, "loop_done", "finally_stdout")
               /\ UNCHANGED <<system, rng, exc>>
    /\ UNCHANGED <<streams, fs, env, req, pre, kasim_cmd, proc, context, old_stdout,
                   old_stderr, stdout_capture, stderr_capture, result>>

\* Line 164, in the finally clause.
FinallyStdout(c) ==
    /\ pc[c] = "finally_stdout"
    /\ sys_stdout' = old_stdout[c]
    /\ Goto(c, "finally_stdout", "finally_stderr")
    /\ UNCHANGED <<sys_stderr, rng, fs, env, locals>>

\* Line 165; then the exception, if one is propagating, reaches the
\* handlers of lines 182 and 191.
FinallyStderr(c) ==
    /\ pc[c] = "finally_stderr"
    /\ sys_stderr' = old_stderr[c]
    /\ IF exc[c] # NoExc
          THEN Goto(c, "finally_stderr", KappybaraHandler(exc[c]))
          ELSE Goto(c, "finally_stderr", "serialize")
    /\ UNCHANGED <<sys_stdout, rng, fs, env, locals>>

\* Lines 168-180: the monitor's table as CSV, and the response.
Serialize(c) ==
    /\ pc[c] = "serialize"
    /\ IF DataframeRaises(req[c].kappa_code)
          THEN /\ exc' = [exc EXCEPT ![c] = DataframeError]
               /\ Goto(c, "serialize_raised", KappybaraHandler(exc'[c]))
               /\ UNCHANGED result
          ELSE /\ result' = [result EXCEPT ![c] =
                     KappybaraResponse(stdout_capture[c], stderr_capture[c],
                                       ToCsv(system[c].rows))]
               /\ Goto(c, "return_kappybara", "with_exit")
               /\ UNCHANGED exc
    /\ UNCHANGED <<globals, req, pre, kasim_cmd, proc, context, old_stdout,
                   old_stderr, stdout_capture, stderr_capture, system>>

\* Line 183.
ImportErrorStdout(c) ==
    /\ pc[c] = "import_error_stdout"
    /\ sys_stdout' = DefaultStdout
    /\ Goto(c, "import_error_stdout", "import_error_stderr")
    /\ UNCHANGED <<sys_stderr, rng, fs, env, locals>>

\* Line 184.
ImportErrorStderr(c) ==
    /\ pc[c] = "import_error_stderr"
    /\ sys_stderr' = DefaultStderr
    /\ Goto(c, "import_error_stderr", "import_error_return")
    /\ UNCHANGED <<sys_stdout, rng, fs, env, locals>>

\* Lines 185-190.
ImportErrorReturn(c) ==
    /\ pc[c] = "import_error_return"
    /\ result' = [result EXCEPT ![c] = ImportErrorResponse(stdout_capture[c], exc[c])]
    /\ exc' = [exc EXCEPT ![c] = NoExc]
    /\ Goto(c, "return_import_error", "with_exit")
    /\ UNCHANGED <<globals, req, pre, kasim_cmd, proc, context, old_stdout,
                   old_stderr, stdout_capture, stderr_capture, system>>

\* Line 193.
ExceptionStdout(c) ==
    /\ pc[c] = "exception_stdout"
    /\ sys_stdout' = DefaultStdout
    /\ Goto(c, "exception_stdout", "exception_stderr")
    /\ UNCHANGED <<sys_stderr, rng, fs, env, locals>>

\* Line 194.
ExceptionStderr(c) ==
    /\ pc[c] = "exception_stderr"
    /\ sys_stderr' = DefaultStderr
    /\ Goto(c, "exception_stderr", "exception_return")
    /\ UNCHANGED <<sys_stdout, rng, fs, env, locals>>

\* Lines 195-200.
ExceptionReturn(c) ==
    /\ pc[c] = "exception_return"
    /\ result' = [result EXCEPT ![c] =
          ExceptionResponse(stdout_capture[c], exc[c], context[c])]
    /\ exc' = [exc EXCEPT ![c] = NoExc]
    /\ Goto(c, "return_exception", "with_exit")
    /\ UNCHANGED <<globals, req, pre, kasim_cmd, proc, context, old_stdout,
                   old_stderr, stdout_capture, stderr_capture, system>>

\* ------------------------------------------------------------- the caller
\* The caller has the returned string and the call's frame is gone.
Collect(c) ==
    /\ pc[c] \in {"returned", "raised"}
    /\ pc' = [pc EXCEPT ![c] = "idle"]
    /\ path' = [path EXCEPT ![c] = {}]
    /\ req' = [req EXCEPT ![c] = NoRequest]
    /\ pre' = [pre EXCEPT ![c] = [stdout |-> NoStream, stderr |-> NoStream, rng |-> 0]]
    /\ kasim_cmd' = [kasim_cmd EXCEPT ![c] = <<>>]
    /\ proc' = [proc EXCEPT ![c] = NoProc]
    /\ exc' = [exc EXCEPT ![c] = NoExc]
    /\ context' = [context EXCEPT ![c] = NoExc]
    /\ old_stdout' = [old_stdout EXCEPT ![c] = NoStream]
    /\ old_stderr' = [old_stderr EXCEPT ![c] = NoStream]
    /\ stdout_capture' = [stdout_capture EXCEPT ![c] = ""]
    /\ stderr_capture' = [stderr_capture EXCEPT ![c] = ""]
    /\ system' = [system EXCEPT ![c] = NoSystem]
    /\ result' = [result EXCEPT ![c] = NoResult]
    /\ UNCHANGED globals

Step(c) ==
    \/ Begin(c) \/ Mkdtemp(c) \/ WriteInput(c) \/ BuildCmd(c) \/ RunKaSim(c)
    \/ CheckResult(c) \/ ReadOutput(c) \/ ExceptFnf(c) \/ ExceptTimeout(c)
    \/ WithExit(c) \/ ExceptOuter(c)
    \/ KbEnter(c) \/ Import(c) \/ Seed(c) \/ SaveStdout(c) \/ SaveStderr(c)
    \/ SetStdout(c) \/ SetStderr(c) \/ FromKaStep(c) \/ Loop(c)
    \/ FinallyStdout(c) \/ FinallyStderr(c) \/ Serialize(c)
    \/ ImportErrorStdout(c) \/ ImportErrorStderr(c) \/ ImportErrorReturn(c)
    \/ ExceptionStdout(c) \/ ExceptionStderr(c) \/ ExceptionReturn(c)
    \/ Collect(c)

Next == \E c \in Calls : Step(c)

Spec == Init /\ [][Next]_vars

\* ------------------------------------------------- overlapping calls
\* The calls the RPC framework runs on separate threads: a call may start
\* while others are in progress; each thread makes one call.  The host has
\* no KaSim, so that every call is served in-process, and runs on the
\* interpreter's own streams.
ConcRequests == [kappa_code : {"valid", "invalid"}, time_limit : {1},
                 points : {1}, seed : 0..MaxSeed]

InitConc ==
    /\ Init
    /\ kasim = "absent"
    /\ sys_stdout = DefaultStdout

BeginConc(c) ==
    /\ pc[c] = "idle"
    /\ \E r \in ConcRequests : req' = [req EXCEPT ![c] = r]
    /\ pre' = [pre EXCEPT ![c] = [stdout |-> sys_stdout, stderr |-> sys_stderr, rng |-> rng]]
    /\ pc' = [pc EXCEPT ![c] = "mkdtemp"]
    /\ UNCHANGED <<globals, path, kasim_cmd, proc, exc, context, old_stdout,
                   old_stderr, stdout_capture, stderr_capture, system, result>>

\* The steps of a call on a host without KaSim.
StepNoKaSim(c) ==
    \/ Mkdtemp(c) \/ WriteInput(c) \/ BuildCmd(c) \/ RunKaSim(c)
    \/ ExceptFnf(c) \/ WithExit(c) \/ ExceptOuter(c)
    \/ KbEnter(c) \/ Import(c) \/ Seed(c) \/ SaveStdout(c) \/ SaveStderr(c)
    \/ SetStdout(c) \/ SetStderr(c) \/ FromKaStep(c) \/ Loop(c)
    \/ FinallyStdout(c) \/ FinallyStderr(c) \/ Serialize(c)
    \/ ImportErrorStdout(c) \/ ImportErrorStderr(c) \/ ImportErrorReturn(c)
    \/ ExceptionStdout(c) \/ ExceptionStderr(c) \/ ExceptionReturn(c)

StepConc(c) == BeginConc(c) \/ StepNoKaSim(c)

NextConc == \E c \in Calls : StepConc(c)

SpecConc == InitConc /\ [][NextConc]_vars

\* ------------------------------------------------------------ fairness
\* Non-overlapping calls without a seed on a host without KaSim, where a
\* call that has started keeps executing: the interpreter runs a thread
\* that can take a step.
FairRequests == [kappa_code : KappaCodes, time_limit : TimeLimits,
                 points : {1}, seed : {None}]

BeginFair(c) ==
    /\ \A d \in Calls : pc[d] = "idle"
    /\ \E r \in FairRequests : req' = [req EXCEPT ![c] = r]
    /\ pre' = [pre EXCEPT ![c] = [stdout |-> sys_stdout, stderr |-> sys_stderr, rng |-> rng]]
    /\ pc' = [pc EXCEPT ![c] = "mkdtemp"]
    /\ UNCHANGED <<globals, path, kasim_cmd, proc, exc, context, old_stdout,
                   old_stderr, stdout_capture, stderr_capture, system, result>>

StepFair(c) == BeginFair(c) \/ StepNoKaSim(c) \/ Collect(c)

NextFair == \E c \in Calls : StepFair(c)

SpecFair == InitConc /\ [][NextFair]_vars /\ \A c \in Calls : WF_vars(StepNoKaSim(c))

\* ================================================================ claims
Returned(c) == pc[c] = "returned"
Took(c, name) == name \in path[c]
SecondaryStarted(c) == Took(c, "run_with_kappybara")
ResultFields == {"stdout", "stderr", "output"}

\* C1: run_kappa_simulation never raises to its caller: whatever the primary
\* stage did (staging error, binary not found, timeout, non-zero exit, zero
\* exit with or without output file) and whatever the secondary stage did
\* (import failure, exception in parsing, stepping or serializing, success),
\* no call ends by raising, and a returned result has exactly the three
\* fields stdout, stderr and output.
C1_NeverRaises ==
    \A c \in Calls :
        /\ pc[c] # "raised"
        /\ Returned(c) => DOMAIN result[c] = ResultFields

\* A call that met a non-zero exit of KaSim and then an exception while
\* serializing the table has returned.
C1_Witness ==
    \E c \in Calls :
        /\ Returned(c)
        /\ Took(c, "kasim_failed")
        /\ Took(c, "serialize_raised")
        /\ proc[c].returncode = 1

\* C2 as stated: for a well-formed model and positive time_limit and points,
\* the result has either non-empty output and empty stderr, or empty output
\* and non-empty stderr.
C2_Exclusivity ==
    \A c \in Calls :
        (/\ Returned(c)
         /\ req[c].kappa_code \in WellFormed
         /\ req[c].time_limit > 0
         /\ req[c].points > 0)
        => \/ result[c].output # "" /\ result[c].stderr = ""
           \/ result[c].output = "" /\ result[c].stderr # ""

\* C2 as amended: a call that no backend completed returns empty output and a
\* non-empty stderr; a call a backend completed returns that backend's
\* captured stderr as it is, empty or not, with the backend's output, which
\* for the library is never empty and for KaSim is the file's text.
C2_ExclusivityOnFailure ==
    \A c \in Calls :
        Returned(c) =>
            IF Took(c, "return_kasim")
            THEN /\ result[c].stderr = proc[c].stderr
                 /\ result[c].output = proc[c].file
            ELSE IF Took(c, "return_kappybara")
            THEN /\ result[c].stderr = stderr_capture[c]
                 /\ result[c].output # ""
            ELSE /\ result[c].output = ""
                 /\ result[c].stderr # ""

\* A well-formed model whose library run succeeded with a warning on stderr.
C2_Witness ==
    \E c \in Calls :
        /\ Returned(c)
        /\ Took(c, "return_kappybara")
        /\ req[c].time_limit > 0 /\ req[c].points > 0
        /\ result[c].stderr # "" /\ result[c].output # ""

\* C3: a timeout of KaSim is terminal: the call returns empty stdout, stderr
\* "Simulation timed out after 5 minutes" and empty output, and
\* run_with_kappybara is never entered in that call.
C3_TimeoutTerminal ==
    \A c \in Calls :
        Took(c, "kasim_timed_out") =>
            /\ ~SecondaryStarted(c)
            /\ Returned(c) =>
                  result[c] = [stdout |-> "",
                               stderr |-> "Simulation timed out after 5 minutes",
                               output |-> ""]

C3_Witness == \E c \in Calls : Returned(c) /\ Took(c, "kasim_timed_out")

\* C4: when KaSim is not found the call proceeds to run_with_kappybara and
\* returns its result, and the returned stderr never reports the missing
\* binary.
C4_BinaryMissingSilent ==
    \A c \in Calls :
        (Returned(c) /\ Took(c, "kasim_not_found")) =>
            /\ SecondaryStarted(c)
            /\ \/ Took(c, "return_kappybara")
               \/ Took(c, "return_import_error")
               \/ Took(c, "return_exception")
            /\ ~Contains(result[c].stderr, "'KaSim'")

\* C5: after a call has returned, the temporary directory it created and
\* the input and output files in it do not exist.
C5_TempCleanedUp ==
    \A c \in Calls :
        Returned(c) =>
            /\ ~Exists(fs, TmpDir(c))
            /\ ~Exists(fs, InputFile(c))
            /\ ~Exists(fs, OutputFile(c))

\* A call for which KaSim wrote an output file and failed, and the library
\* then succeeded, has returned.
C5_Witness ==
    \E c \in Calls :
        /\ Returned(c)
        /\ Took(c, "write_input")
        /\ proc[c].file # NoFile
        /\ Took(c, "return_kappybara")

\* C6: after a call returns, sys.stdout and sys.stderr are the stream
\* objects that were installed immediately before the call.
C6_StreamsRestored ==
    \A c \in Calls :
        Returned(c) => sys_stdout = pre[c].stdout /\ sys_stderr = pre[c].stderr

\* C7: a call served by run_with_kappybara with an explicit seed returns the
\* output that the same model, time_limit and seed give when run alone from
\* the seeded generator, whatever calls ran before it; so two such calls
\* with the same model, time_limit and seed return identical output.
RECURSIVE RunAlone(_, _, _)
RunAlone(sys, r, time_limit) ==
    IF sys.time < time_limit
    THEN RunAlone(Update(sys, r), Advance(r), time_limit)
    ELSE sys
RunSucceeds(code, time_limit) ==
    /\ kappybara = "present"
    /\ ~FromKaRaises(code)
    /\ ~(UpdateRaises(code) /\ 0 < time_limit)
    /\ ~(code = "frozen" /\ 0 < time_limit)
    /\ ~DataframeRaises(code)
SeededOutput(code, time_limit, seed) ==
    IF RunSucceeds(code, time_limit)
    THEN ToCsv(RunAlone(FromKa(code), Seeded(seed), time_limit).rows)
    ELSE ""
C7_SeededDeterminism ==
    \A c \in Calls :
        (Returned(c) /\ SecondaryStarted(c) /\ req[c].seed # None) =>
            result[c].output =
                SeededOutput(req[c].kappa_code, req[c].time_limit, req[c].seed)

\* A seeded library run that took a step has returned, in a process whose
\* generator was left elsewhere than at the seed's state by earlier calls.
C7_Witness ==
    \E c \in Calls :
        /\ Returned(c)
        /\ Took(c, "return_kappybara")
        /\ Took(c, "update")
        /\ req[c].seed # None
        /\ pre[c].rng # Seeded(req[c].seed)

\* C8: for a model source the backends reject (KaSim absent, or exiting
\* non-zero or without output file; the library's constructor raising, or
\* the library absent), the call does not raise and returns empty output
\* and a non-empty stderr.
C8_RejectedModel ==
    \A c \in Calls :
        (/\ req[c].kappa_code = "invalid"
         /\ Took(c, "kasim_not_found") \/ Took(c, "kasim_failed"))
        => /\ pc[c] # "raised"
           /\ Returned(c) => result[c].output = "" /\ result[c].stderr # ""

C8_Witness ==
    \E c \in Calls :
        /\ Returned(c)
        /\ req[c].kappa_code = "invalid"
        /\ Took(c, "kasim_failed")
        /\ Took(c, "from_ka_raised")

\* C9: when KaSim completes with a non-zero exit status, or with exit status
\* zero and no output file, run_with_kappybara is entered in the same call,
\* the call's result is the one run_with_kappybara built, and nothing
\* KaSim wrote to its stdout or stderr is in it.
C9_FallbackOnFailure ==
    \A c \in Calls :
        (/\ Returned(c)
         /\ Took(c, "kasim_completed")
         /\ proc[c].returncode # 0 \/ proc[c].file = NoFile)
        => /\ SecondaryStarted(c)
           /\ \/ /\ Took(c, "return_kappybara")
                 /\ result[c] = [stdout |-> stdout_capture[c],
                                 stderr |-> stderr_capture[c],
                                 output |-> ToCsv(system[c].rows)]
              \/ /\ Took(c, "return_import_error")
                 /\ result[c].output = ""
                 /\ Contains(result[c].stderr, "Failed to import kappybara")
              \/ /\ Took(c, "return_exception")
                 /\ result[c].output = ""
                 /\ Contains(result[c].stderr, "Kappybara simulation failed")
           /\ ~Contains(result[c].stdout, "KaSim")
           /\ ~Contains(result[c].stderr, "KaSim")

\* Both triggers: exit status zero without an output file.
C9_Witness ==
    \E c \in Calls :
        /\ Returned(c)
        /\ proc[c].returncode = 0
        /\ proc[c].file = NoFile
        /\ Took(c, "kasim_completed")
        /\ Took(c, "return_kappybara")

Phase(c) ==
    CASE pc[c] = "idle" -> "IDLE"
      [] pc[c] \in {"mkdtemp", "write_input", "build_cmd"} -> "START"
      [] pc[c] \in {"run_kasim", "check_result", "read_output"} -> "PRIMARY_ATTEMPT"
      [] pc[c] = "except_timeout" -> "TIMEOUT"
      [] pc[c] = "except_fnf" -> "UNAVAILABLE"
      [] pc[c] = "kb_enter" -> IF context[c] # NoExc THEN "UNAVAILABLE" ELSE "FAILED"
      [] pc[c] \in {"import", "seed", "save_stdout", "save_stderr", "set_stdout",
                    "set_stderr", "from_ka", "loop", "finally_stdout",
                    "finally_stderr", "serialize"} -> "SECONDARY_ATTEMPT"
      [] pc[c] \in {"import_error_stdout", "import_error_stderr",
                    "import_error_return"} -> "IMPORT_FAILURE"
      [] pc[c] \in {"exception_stdout", "exception_stderr",
                    "exception_return"} -> "RUNTIME_FAILURE"
      [] pc[c] = "except_outer" -> "ERROR"
      [] pc[c] = "with_exit" ->
            IF exc[c] # NoExc THEN "ERROR"
            ELSE IF Took(c, "return_kasim") \/ Took(c, "return_kappybara") THEN "SUCCESS"
            ELSE IF Took(c, "return_import_error") THEN "IMPORT_FAILURE"
            ELSE IF Took(c, "return_exception") THEN "RUNTIME_FAILURE"
            ELSE IF Took(c, "except_timeout") THEN "TIMEOUT"
            ELSE "ERROR"
      [] pc[c] = "returned" -> "END"
      [] OTHER -> "RAISED"

StatedTransitions ==
    { <<"IDLE", "START">>, <<"START", "PRIMARY_ATTEMPT">>,
      <<"PRIMARY_ATTEMPT", "SUCCESS">>, <<"PRIMARY_ATTEMPT", "TIMEOUT">>,
      <<"PRIMARY_ATTEMPT", "UNAVAILABLE">>, <<"PRIMARY_ATTEMPT", "FAILED">>,
      <<"UNAVAILABLE", "SECONDARY_ATTEMPT">>, <<"FAILED", "SECONDARY_ATTEMPT">>,
      <<"SECONDARY_ATTEMPT", "SUCCESS">>, <<"SECONDARY_ATTEMPT", "IMPORT_FAILURE">>,
      <<"SECONDARY_ATTEMPT", "RUNTIME_FAILURE">>,
      <<"SUCCESS", "END">>, <<"TIMEOUT", "END">>, <<"IMPORT_FAILURE", "END">>,
      <<"RUNTIME_FAILURE", "END">>, <<"END", "IDLE">> }
ErrorTransitions ==
    { <<"START", "ERROR">>, <<"PRIMARY_ATTEMPT", "ERROR">>, <<"ERROR", "END">> }

\* C11 as stated: every step of a call stays in its state or follows a
\* transition of START -> PRIMARY_ATTEMPT -> {SUCCESS | TIMEOUT | UNAVAILABLE |
\* FAILED}, {UNAVAILABLE | FAILED} -> SECONDARY_ATTEMPT -> {SUCCESS |
\* IMPORT_FAILURE | RUNTIME_FAILURE} -> END; no other outcome exists.
C11_StatedMachine ==
    [][\A c \in Calls :
          Phase(c)' = Phase(c) \/ <<Phase(c), Phase(c)'>> \in StatedTransitions]_vars

\* C11 as amended: the same machine with one more terminal outcome, ERROR,
\* reached from START or from PRIMARY_ATTEMPT (never from the secondary
\* attempt) when staging, launching KaSim or reading its file raises.
C11_MachineWithError ==
    [][\A c \in Calls :
          \/ Phase(c)' = Phase(c)
          \/ <<Phase(c), Phase(c)'>> \in StatedTransitions \cup ErrorTransitions]_vars

\* A call that found no binary, entered the secondary attempt and ended in
\* the import failure.
C11_Witness ==
    \E c \in Calls :
        /\ Returned(c)
        /\ Took(c, "except_fnf")
        /\ Took(c, "import_raised")
        /\ Took(c, "return_import_error")

\* C12: when calls run the in-process backend concurrently, then under every
\* interleaving, once all of them have returned, sys.stdout and sys.stderr
\* are the streams installed before the first call started (here the
\* interpreter's own), and no call's capture buffer is installed.
C12_ConcurrentStreamsRestored ==
    (\A c \in Calls : Returned(c)) =>
        /\ sys_stdout.kind # "capture" /\ sys_stderr.kind # "capture"
        /\ sys_stdout = DefaultStdout /\ sys_stderr = DefaultStderr

\* C14: two calls with different explicit seeds that run the in-process
\* backend concurrently race on the process-wide generator: a call's output
\* differs from the output it gives alone with its seed only when another
\* call changed the generator between its seeding and the end of its loop,
\* and (the witness) there is an interleaving in which it does differ.
C14_SeedRace ==
    \A c \in Calls :
        (/\ Returned(c)
         /\ Took(c, "return_kappybara")
         /\ req[c].seed # None
         /\ result[c].output #
               SeededOutput(req[c].kappa_code, req[c].time_limit, req[c].seed))
        => Took(c, "rng_disturbed")

\* Two calls with different seeds, one of which has returned an output that
\* is not the output of its seed.
C14_Witness ==
    \E c, d \in Calls :
        /\ c # d
        /\ Returned(c)
        /\ Took(c, "return_kappybara")
        /\ Took(d, "seed")
        /\ req[c].seed # None /\ req[d].seed # None /\ req[c].seed # req[d].seed
        /\ result[c].output #
              SeededOutput(req[c].kappa_code, req[c].time_limit, req[c].seed)

BackendInvoked(c) ==
    \/ Took(c, "kasim_completed") \/ Took(c, "kasim_timed_out")
    \/ Took(c, "from_ka") \/ Took(c, "from_ka_raised")
C15_PositiveParameters ==
    \A c \in Calls :
        BackendInvoked(c) => req[c].time_limit > 0 /\ req[c].points >= 1

\* C16: system.update() is invoked only when the simulated time is below
\* time_limit, and when run_with_kappybara returns a success the simulated
\* time is at least time_limit (with no update at all when the initial time
\* already meets it).
UpdateInvoked(c) ==
    /\ pc[c] = "loop"
    /\ \/ pc'[c] = "loop" /\ rng' # rng
       \/ "update_raised" \in path'[c]
C16_LoopPostcondition ==
    /\ [](\A c \in Calls :
            /\ Took(c, "return_kappybara") => system[c].time >= req[c].time_limit
            /\ (Took(c, "loop_done") /\ req[c].time_limit <= 0) => system[c].rows = <<>>
            /\ \A i \in 1..Len(system[c].rows) :
                  (IF i = 1 THEN 0 ELSE system[c].rows[i - 1][1]) < req[c].time_limit)
    /\ [][\A c \in Calls : UpdateInvoked(c) => system[c].time < req[c].time_limit]_vars

\* A successful run whose last update carried the time past the limit.
C16_Witness ==
    \E c \in Calls :
        /\ Took(c, "return_kappybara")
        /\ Took(c, "update")
        /\ system[c].time > req[c].time_limit

\* C17: as every update of a model other than the frozen one raises or
\* advances the simulated time by at least one unit, every call of it that
\* enters run_with_kappybara returns; nothing but the time condition ends
\* the loop, so a call whose update never advances the time and never
\* raises stays in the loop.
Frozen(c) == req[c].kappa_code = "frozen" /\ req[c].time_limit > 0
C17_Termination ==
    /\ \A c \in Calls : (SecondaryStarted(c) /\ ~Frozen(c)) ~> Returned(c)
    /\ [][\A c \in Calls : (pc[c] = "loop" /\ Frozen(c)) => pc'[c] = "loop"]_vars

\* A run that needed the most updates has returned.
C17_Witness ==
    \E c \in Calls :
        /\ Returned(c)
        /\ Took(c, "return_kappybara")
        /\ Len(system[c].rows) >= 2

\* C18: when parsing or stepping raises, the returned stdout is exactly the
\* text written to the capture buffer before the exception, the output is
\* empty and stderr contains the exception's message; the finally clause
\* has taken the call's buffers off sys.stdout and sys.stderr before the
\* result is built.
C18_PartialStdout ==
    \A c \in Calls :
        /\ (Returned(c) /\ Took(c, "from_ka_raised")) =>
              /\ result[c].stdout = ""
              /\ result[c].output = ""
              /\ Contains(result[c].stderr, "cannot parse model")
        /\ (Returned(c) /\ Took(c, "update_raised")) =>
              /\ result[c].stdout = FromKaStdout(req[c].kappa_code)
              /\ result[c].output = ""
              /\ Contains(result[c].stderr, "no applicable rule")
        /\ (Took(c, "return_exception") \/ pc[c] = "exception_return") =>
              /\ Took(c, "finally_stdout") /\ Took(c, "finally_stderr")
              /\ sys_stdout # StdoutCapture(c) /\ sys_stderr # StderrCapture(c)

\* A stepping failure after the library had written to stdout.
C18_Witness ==
    \E c \in Calls :
        /\ Returned(c)
        /\ Took(c, "update_raised")
        /\ result[c].stdout = "parsed\n"

\* C19: points has no part in an in-process run: the updates performed and
\* the returned stdout, stderr and output are those that the model source,
\* time_limit, seed and starting generator state give, whatever points is.
StartRng(c) == IF req[c].seed # None THEN Seeded(req[c].seed) ELSE pre[c].rng
C20_UnexpectedErrorTerminal ==
    \A c \in Calls :
        LET failed(step, msg) ==
                Took(c, step) =>
                    /\ ~SecondaryStarted(c)
                    /\ Returned(c) =>
                          result[c] = [stdout |-> "",
                                       stderr |-> "Simulation failed: " \o msg,
                                       output |-> ""]
        IN  /\ failed("mkdtemp_raised", "No usable temporary directory found")
            /\ failed("write_input_raised", "No space left on device")
            /\ failed("kasim_not_launched", "[Errno 13] Permission denied: 'KaSim'")
            /\ failed("read_output_raised", "'utf-8' codec can't decode byte 0xff")

\* KaSim could not be launched for lack of permission, and the call returned.
C20_Witness ==
    \E c \in Calls : Returned(c) /\ Took(c, "kasim_not_launched")

====
